---- MODULE Spec2Model ----
(***************************************************************************)
(* Model of src/preprocess/preprocess.py: the merge join of ratings with   *)
(* item metadata, the statistics of a relation, and the top-n / min-       *)
(* reviews density filter.                                                 *)
(*                                                                         *)
(* A DataFrame is a sequence of rows (records); row order and duplicate    *)
(* rows are kept.  Item and user identifiers are integers whose order      *)
(* stands for the order of the identifiers (groupby sorts its keys).       *)
(* df[mask] is SelectSeq: the rows that satisfy the mask, in their order.  *)
(* Rows are well-formed: no null itemID, userID or rating.                 *)
(***************************************************************************)
EXTENDS Integers, Sequences, FiniteSets, TLC

\* ---- bounds of the model ------------------------------------------------
NumItems == 2
NumUsers == 2
MaxRows == 3
MaxJoinRows == 2
MaxMeta == 2

Items == 1..NumItems
Users == 1..NumUsers
Ratings == {5}
Times == {0}
Titles == {"A", "B"}
\* head(n) is the same for every n >= NumItems; no user has more than MaxRows rows
TopNs == (0 - 1)..NumItems
MinReviews == (0 - 1)..MaxRows

\* ---- the shapes of the data ---------------------------------------------
csv_headers == {"itemID", "userID", "rating", "unixReviewTime"}

RatingRows == [itemID : Items, userID : Users, rating : Ratings,
               unixReviewTime : Times]

MetadataRows == [asin : Items, title : Titles]

DataFrames == UNION {[1..n -> RatingRows] : n \in 0..MaxRows}

RatingFrames == UNION {[1..n -> RatingRows] : n \in 0..MaxJoinRows}

MetadataFrames == UNION {[1..n -> MetadataRows] : n \in 0..MaxMeta}

VARIABLES
    pc,            \* which call has returned
    ratings,       \* join: the ratings read from the csv file
    metadata,      \* join: the metadata read from the json file
    joined_data,   \* join: the merged frame
    df,            \* the frame passed to calculate_statistics / extract_ratings
    numbers,       \* calculate_statistics: the returned series
    top_n,         \* extract_ratings: parameter
    min_reviews,   \* extract_ratings: parameter
    sorted_items,  \* extract_ratings: item index after sort_values, before head
    top_items,     \* extract_ratings: the selected items
    df_new,        \* extract_ratings: the returned frame
    top_n2,        \* second call: its top_n
    sorted_items2, \* second call: item index after sort_values
    df_new2,       \* second call: the returned frame
    raised         \* the exception the last call raised, "none" if it returned

vars == <<pc, ratings, metadata, joined_data, df, numbers, top_n, min_reviews,
          sorted_items, top_items, df_new, top_n2, sorted_items2, df_new2,
          raised>>

\* ---- helpers --------------------------------------------------------------
Range(s) == {s[k] : k \in DOMAIN s}

Min(a, b) == IF a <= b THEN a ELSE b

Max(a, b) == IF a >= b THEN a ELSE b

Abs(a) == IF a < 0 THEN 0 - a ELSE a

RECURSIVE GCD(_, _)
GCD(a, b) == IF b = 0 THEN a ELSE GCD(b, a % b)

\* ---- floating point results ------------------------------------------------
\* A float is an exact fraction in lowest terms, or nan / inf / -inf.
NaN == [kind |-> "nan", num |-> 0, den |-> 0]

Inf == [kind |-> "inf", num |-> 0, den |-> 0]

NegInf == [kind |-> "-inf", num |-> 0, den |-> 0]

Fraction(a, b) ==
    LET g == GCD(Abs(a), b)
    IN  [kind |-> "num", num |-> a \div g, den |-> b \div g]

\* numpy scalar true division: x / 0 warns and yields nan or inf, never raises
TrueDiv(a, b) ==
    IF b = 0 THEN (IF a = 0 THEN NaN ELSE Inf)
    ELSE Fraction(a, b)

\* 1 - q
OneMinus(q) ==
    IF q.kind = "nan" THEN NaN
    ELSE IF q.kind = "inf" THEN NegInf
    ELSE IF q.kind = "-inf" THEN Inf
    ELSE Fraction(q.den - q.num, q.den)

\* ---- join_ratings_with_metadata ---------------------------------------------
\* the rows of the right frame that match one left row, each glued to it
MergeRow(r, right) ==
    LET hits == SelectSeq(right, LAMBDA m : m.asin = r.itemID)
    IN  [k \in 1..Len(hits) |->
            [itemID |-> r.itemID, userID |-> r.userID, rating |-> r.rating,
             unixReviewTime |-> r.unixReviewTime,
             asin |-> hits[k].asin, title |-> hits[k].title]]

\* faulty variant: an interaction is kept once, with its first match only
MergeFirstOnly(left, right) ==
    LET F[k \in 0..Len(left)] ==
            IF k = 0 THEN <<>>
            ELSE F[k - 1] \o (IF MergeRow(left[k], right) = <<>> THEN <<>>
                              ELSE <<MergeRow(left[k], right)[1]>>)
    IN  F[Len(left)]

\* left.merge(right, left_on=["itemID"], right_on=["asin"], how="inner")
Merge(left, right) ==
    LET F[k \in 0..Len(left)] ==
            IF k = 0 THEN <<>> ELSE F[k - 1] \o MergeRow(left[k], right)
    IN  F[Len(left)]

\* ---- calculate_statistics ---------------------------------------------------
nunique(f, col) == Cardinality({f[k][col] : k \in DOMAIN f})

\* count of the non-null values of a column; every rating of a row is non-null
count(f) == Len(f)

\* faulty variant: duplicate user-item pairs are counted once
countDistinctPairs(f) ==
    Cardinality({<<f[k].userID, f[k].itemID>> : k \in DOMAIN f})

\* faulty variant: the statistics with the deduplicated count
calculate_statistics_dedup(f) ==
    LET itemID == nunique(f, "itemID")
        userID == nunique(f, "userID")
        rating == countDistinctPairs(f)
        avg_number_reviews == TrueDiv(rating, userID)
        rating_mx_shape == userID * itemID
        sparsity == OneMinus(TrueDiv(rating, rating_mx_shape))
    IN  [itemID |-> itemID, userID |-> userID, rating |-> rating,
         avg_number_reviews |-> avg_number_reviews,
         rating_mx_shape |-> rating_mx_shape, sparsity |-> sparsity]

calculate_statistics(f) ==
    LET itemID == nunique(f, "itemID")
        userID == nunique(f, "userID")
        rating == count(f)
        avg_number_reviews == TrueDiv(rating, userID)
        rating_mx_shape == userID * itemID
        sparsity == OneMinus(TrueDiv(rating, rating_mx_shape))
    IN  [itemID |-> itemID, userID |-> userID, rating |-> rating,
         avg_number_reviews |-> avg_number_reviews,
         rating_mx_shape |-> rating_mx_shape, sparsity |-> sparsity]

\* ---- extract_ratings ----------------------------------------------------------
\* df.groupby(["userID"])[["rating"]].count(): one entry per user present
users_ratings(f) ==
    [u \in {f[k].userID : k \in DOMAIN f} |->
        Cardinality({k \in DOMAIN f : f[k].userID = u})]

\* faulty variant: > instead of >=
users_filtered_strict(f, m) ==
    {u \in DOMAIN users_ratings(f) : users_ratings(f)[u] > m}

\* users_ratings[users_ratings["rating"] >= min_reviews].index
users_filtered(f, m) ==
    {u \in DOMAIN users_ratings(f) : users_ratings(f)[u] >= m}

\* faulty variant: the items are counted over the rows of all users
item_counts_all_users(f, m) ==
    [i \in {f[k].itemID : k \in DOMAIN f} |->
        Cardinality({k \in DOMAIN f : f[k].itemID = i})]

\* df[df["userID"].isin(users_filtered)].groupby(["itemID"])[["rating"]].count()
item_counts(f, m) ==
    LET restricted == SelectSeq(f, LAMBDA r : r.userID \in users_filtered(f, m))
    IN  [i \in {restricted[k].itemID : k \in DOMAIN restricted} |->
            Cardinality({k \in DOMAIN restricted : restricted[k].itemID = i})]

\* sort_values("rating", ascending=False) with the default quicksort: the
\* index in some order of non-increasing count; the order of equal counts is
\* whatever the unstable sort of the build leaves.
sort_values_desc(counts) ==
    LET S == DOMAIN counts
        n == Cardinality(S)
    IN  {s \in [1..n -> S] :
            /\ \A a, b \in 1..n : a # b => s[a] # s[b]
            /\ \A a \in 1..n : a < n => counts[s[a]] >= counts[s[a + 1]]}

\* faulty variant: the first n entries are dropped instead of kept
head_from(s, n) ==
    IF n >= 0 THEN SubSeq(s, Min(n, Len(s)) + 1, Len(s))
    ELSE SubSeq(s, 1, Max(Len(s) + n, 0))

\* .head(n): the first n entries; for negative n all but the last -n
head(s, n) ==
    IF n >= 0 THEN SubSeq(s, 1, Min(n, Len(s)))
    ELSE SubSeq(s, 1, Max(Len(s) + n, 0))

\* faulty variant: the selection keeps three of the four columns
isin_itemID_columns(f, items) ==
    LET kept == SelectSeq(f, LAMBDA r : r.itemID \in Range(items))
    IN  [k \in 1..Len(kept) |->
            [itemID |-> kept[k].itemID, userID |-> kept[k].userID,
             rating |-> kept[k].rating]]

\* df[df["itemID"].isin(top_items)].copy()
isin_itemID(f, items) ==
    SelectSeq(f, LAMBDA r : r.itemID \in Range(items))

\* faulty variant: the rows are taken from the user-restricted frame
extract_ratings_restricted(f, n, m, sorted) ==
    LET top == head(sorted, n)
    IN  [top_items |-> top,
         df_new |-> isin_itemID(
             SelectSeq(f, LAMBDA r : r.userID \in users_filtered(f, m)), top)]

\* the body of extract_ratings once sort_values has produced `sorted`
extract_ratings(f, n, m, sorted) ==
    LET top == head(sorted, n)
    IN  [top_items |-> top, df_new |-> isin_itemID(f, top)]

\* ---- the state machine of the density filter -----------------------------------
Init ==
    /\ pc = "loaded"
    /\ df \in DataFrames
    /\ ratings = <<>> /\ metadata = <<>> /\ joined_data = <<>>
    /\ numbers = calculate_statistics(<<>>)
    /\ top_n = 0 /\ min_reviews = 0
    /\ sorted_items = <<>> /\ top_items = <<>> /\ df_new = <<>>
    /\ top_n2 = 0 /\ sorted_items2 = <<>> /\ df_new2 = <<>>
    /\ raised = "none"

\* extract_ratings(df, n, m)
Extract ==
    /\ pc = "loaded"
    /\ \E n \in TopNs, m \in MinReviews :
        \E sorted \in sort_values_desc(item_counts(df, m)) :
            LET r == extract_ratings(df, n, m, sorted)
            IN  /\ top_n' = n
                /\ min_reviews' = m
                /\ sorted_items' = sorted
                /\ top_items' = r.top_items
                /\ df_new' = r.df_new
    /\ raised' = "none"
    /\ pc' = "extracted"
    /\ UNCHANGED <<ratings, metadata, joined_data, df, numbers, top_n2,
                   sorted_items2, df_new2>>

\* extract_ratings(df_new, top_n, min_reviews): the filter applied to its own
\* output.  The sort is a function of its input: the same counts are sorted
\* into the same order as in the first call.
ExtractAgain ==
    /\ pc = "extracted"
    /\ \E sorted \in sort_values_desc(item_counts(df_new, min_reviews)) :
        /\ item_counts(df_new, min_reviews) = item_counts(df, min_reviews)
              => sorted = sorted_items
        /\ sorted_items2' = sorted
        /\ df_new2' = extract_ratings(df_new, top_n, min_reviews, sorted).df_new
    /\ top_n2' = top_n
    /\ raised' = "none"
    /\ pc' = "again"
    /\ UNCHANGED <<ratings, metadata, joined_data, df, numbers, top_n,
                   min_reviews, sorted_items, top_items, df_new>>

\* extract_ratings(df, b, min_reviews) with b >= top_n: the same frame and the
\* same min_reviews give sort_values the same input, hence the same order.
ExtractWider ==
    /\ pc = "extracted"
    /\ \E b \in TopNs :
        /\ b >= top_n
        /\ top_n2' = b
        /\ sorted_items2' = sorted_items
        /\ df_new2' = extract_ratings(df, b, min_reviews, sorted_items).df_new
    /\ raised' = "none"
    /\ pc' = "wider"
    /\ UNCHANGED <<ratings, metadata, joined_data, df, numbers, top_n,
                   min_reviews, sorted_items, top_items, df_new>>

Next == Extract \/ ExtractAgain \/ ExtractWider

Spec == Init /\ [][Next]_vars

\* ---- the state machine of the statistics ----------------------------------------
InitStats == Init

\* calculate_statistics(df)
CalculateStatistics ==
    /\ pc = "loaded"
    /\ numbers' = calculate_statistics(df)
    /\ raised' = "none"
    /\ pc' = "statistics"
    /\ UNCHANGED <<ratings, metadata, joined_data, df, top_n, min_reviews,
                   sorted_items, top_items, df_new, top_n2, sorted_items2,
                   df_new2>>

NextStats == CalculateStatistics

SpecStats == InitStats /\ [][NextStats]_vars

\* ---- the state machine of the join ------------------------------------------------
InitJoin ==
    /\ pc = "read"
    /\ ratings \in RatingFrames
    /\ metadata \in MetadataFrames
    /\ joined_data = <<>>
    /\ df = <<>>
    /\ numbers = calculate_statistics(<<>>)
    /\ top_n = 0 /\ min_reviews = 0
    /\ sorted_items = <<>> /\ top_items = <<>> /\ df_new = <<>>
    /\ top_n2 = 0 /\ sorted_items2 = <<>> /\ df_new2 = <<>>
    /\ raised = "none"

\* join_ratings_with_metadata, once both files are read
Join ==
    /\ pc = "read"
    /\ joined_data' = Merge(ratings, metadata)
    /\ raised' = "none"
    /\ pc' = "joined"
    /\ UNCHANGED <<ratings, metadata, df, numbers, top_n, min_reviews,
                   sorted_items, top_items, df_new, top_n2, sorted_items2,
                   df_new2>>

NextJoin == Join

SpecJoin == InitJoin /\ [][NextJoin]_vars

\* ---- what the claims speak about, counted directly on the frames ----------------
ValidParameters == top_n >= 1 /\ min_reviews >= 0

Occurrences(f, r) == Cardinality({k \in DOMAIN f : f[k] = r})

RowsOfUser(f, u) == Cardinality({k \in DOMAIN f : f[k].userID = u})

\* rows of item i written by users that have at least m rows in f
QualifiedCount(f, m, i) ==
    Cardinality({k \in DOMAIN f :
        f[k].itemID = i /\ RowsOfUser(f, f[k].userID) >= m})

RankedItems(f, m) == {i \in Items : QualifiedCount(f, m, i) > 0}

ItemsOf(f) == {f[k].itemID : k \in DOMAIN f}

Matches(r) == Cardinality({k \in DOMAIN metadata : metadata[k].asin = r.itemID})

SumMatches ==
    LET F[k \in 0..Len(ratings)] ==
            IF k = 0 THEN 0 ELSE F[k - 1] + Matches(ratings[k])
    IN  F[Len(ratings)]

LeftPart(j) ==
    [itemID |-> j.itemID, userID |-> j.userID, rating |-> j.rating,
     unixReviewTime |-> j.unixReviewTime]

C2_TopItemsAmongQualified ==
    (pc = "extracted" /\ ValidParameters) =>
        LET ranked == RankedItems(df, min_reviews)
            top == Range(top_items)
        IN  /\ Len(top_items) = Min(top_n, Cardinality(ranked))
            /\ Cardinality(top) = Len(top_items)
            /\ top \subseteq ranked
            /\ \A i \in top, j \in ranked \ top :
                  QualifiedCount(df, min_reviews, i)
                      >= QualifiedCount(df, min_reviews, j)
            /\ \A a, b \in DOMAIN top_items :
                  a < b => QualifiedCount(df, min_reviews, top_items[a])
                               >= QualifiedCount(df, min_reviews, top_items[b])

C2_Witness ==
    /\ pc = "extracted" /\ ValidParameters
    /\ min_reviews >= 1
    /\ \E k \in DOMAIN df :
          /\ RowsOfUser(df, df[k].userID) = min_reviews
          /\ df[k].itemID \in Range(top_items)
    /\ \A u \in Users : RowsOfUser(df, u) <= min_reviews
    /\ \E j \in ItemsOf(df) : j \notin RankedItems(df, min_reviews)
    /\ top_items # <<>>
    /\ Len(top_items) < top_n

\* C3: an interaction row appears in the join once per metadata row whose asin
\* equals its itemID and not at all when there is none; the join has as many
\* rows as the interactions have matching metadata rows in total.
C3_JoinFanOut ==
    pc = "joined" =>
        /\ Len(joined_data) = SumMatches
        /\ \A r \in RatingRows :
              Cardinality({k \in DOMAIN joined_data :
                              LeftPart(joined_data[k]) = r})
                  = Occurrences(ratings, r) * Matches(r)
        /\ \A k \in DOMAIN joined_data :
              /\ joined_data[k].asin = joined_data[k].itemID
              /\ [asin |-> joined_data[k].asin, title |-> joined_data[k].title]
                    \in Range(metadata)

C3_Witness ==
    /\ pc = "joined"
    /\ \E k \in DOMAIN ratings : Matches(ratings[k]) = 2
    /\ \E k \in DOMAIN ratings : Matches(ratings[k]) = 0
    /\ Len(joined_data) = 2

\* C4: on a frame with at least one user and one item the statistics are the
\* distinct items, the distinct users, the number of rows (duplicates of a
\* user-item pair counted), matrix size = users * items, average * users =
\* rows and sparsity = 1 - rows / matrix size.
C4_Statistics ==
    (pc = "statistics" /\ df # <<>>) =>
        LET items == Cardinality({df[k].itemID : k \in DOMAIN df})
            users == Cardinality({df[k].userID : k \in DOMAIN df})
        IN  /\ numbers.itemID = items
            /\ numbers.userID = users
            /\ numbers.rating = Len(df)
            /\ numbers.rating_mx_shape = users * items
            /\ numbers.avg_number_reviews.kind = "num"
            /\ numbers.avg_number_reviews.num * users
                  = Len(df) * numbers.avg_number_reviews.den
            /\ numbers.sparsity.kind = "num"
            /\ numbers.sparsity.num * (users * items)
                  = (users * items - Len(df)) * numbers.sparsity.den

C4_Witness ==
    /\ pc = "statistics"
    /\ \E a, b \in DOMAIN df :
          a # b /\ df[a].userID = df[b].userID /\ df[a].itemID = df[b].itemID
    /\ numbers.userID = 2
    /\ numbers.rating = 3

\* C5: a call with top_n <= 0 or min_reviews < 0 fails with
\* InvalidParameterError instead of returning a frame.
C5_InvalidParameterRaises ==
    (pc = "extracted" /\ (top_n <= 0 \/ min_reviews < 0)) =>
        raised = "InvalidParameterError"

\* C6: statistics of a frame with no user, or with matrix size 0, signal
\* EmptyRelationError; no record with a nan or infinite average or sparsity
\* is returned.
C6_EmptyRelationRaises ==
    pc = "statistics" =>
        /\ (Cardinality({df[k].userID : k \in DOMAIN df}) = 0
               \/ Cardinality({df[k].userID : k \in DOMAIN df})
                    * Cardinality({df[k].itemID : k \in DOMAIN df}) = 0)
              => raised = "EmptyRelationError"
        /\ raised = "none" =>
              /\ numbers.avg_number_reviews.kind = "num"
              /\ numbers.sparsity.kind = "num"

\* C7: among items of equal count the lower itemID comes first, so a tie that
\* straddles the cut selects the lowest itemIDs.
C7_TieBreakLowestItemID ==
    (pc = "extracted" /\ ValidParameters) =>
        /\ \A i \in Range(top_items) :
              \A j \in RankedItems(df, min_reviews) \ Range(top_items) :
                  QualifiedCount(df, min_reviews, i)
                      = QualifiedCount(df, min_reviews, j) => i < j
        /\ \A a, b \in DOMAIN top_items :
              (a < b /\ QualifiedCount(df, min_reviews, top_items[a])
                          = QualifiedCount(df, min_reviews, top_items[b]))
                  => top_items[a] < top_items[b]

\* C8 as stated: filtering the output again with the same parameters returns
\* it unchanged whenever top_n is at least the number of distinct items in it.
C8_IdempotentAsStated ==
    (pc = "again" /\ ValidParameters
        /\ top_n >= Cardinality(ItemsOf(df_new))) => df_new2 = df_new

\* C8 amended: ... and every item of the output has a row, in the output,
\* of a user with at least min_reviews rows in the output.
C8_IdempotentWhenItemsStayRanked ==
    (pc = "again" /\ ValidParameters
        /\ top_n >= Cardinality(ItemsOf(df_new))
        /\ ItemsOf(df_new) \subseteq RankedItems(df_new, min_reviews))
        => df_new2 = df_new

C8_Witness ==
    /\ pc = "again" /\ ValidParameters
    /\ top_n >= Cardinality(ItemsOf(df_new))
    /\ ItemsOf(df_new) \subseteq RankedItems(df_new, min_reviews)
    /\ min_reviews >= 2
    /\ df_new # <<>>
    /\ df_new # df
    /\ df_new2 = df_new

\* C9: for a fixed frame and min_reviews and positive top_n values a <= b,
\* the call with a returns at most as many rows as the call with b.
C9_MonotoneInTopN ==
    (pc = "wider" /\ top_n >= 1 /\ top_n <= top_n2) =>
        Len(df_new) <= Len(df_new2)

C9_Witness ==
    /\ pc = "wider" /\ top_n >= 1 /\ top_n < top_n2
    /\ 0 < Len(df_new)
    /\ Len(df_new) < Len(df_new2)

\* C10 as stated: the output has the schema of the input and is a strict
\* subset of it: at least one input row is missing from the output.
C10_StrictSubsetAsStated ==
    (pc = "extracted" /\ ValidParameters) =>
        /\ raised = "none"
        /\ \A k \in DOMAIN df_new : df_new[k] \in Range(df)
        /\ Len(df_new) < Len(df)

\* C10 amended: the output has the schema of the input and every output row
\* is an input row, no more often than in the input (the output may be the
\* whole input); when no item meets the criteria the call returns the empty
\* frame and raises nothing.
C10_SubsetPossiblyAll ==
    (pc = "extracted" /\ ValidParameters) =>
        /\ raised = "none"
        /\ \A k \in DOMAIN df_new :
              /\ DOMAIN df_new[k] = csv_headers
              /\ df_new[k] \in Range(df)
              /\ Occurrences(df_new, df_new[k]) <= Occurrences(df, df_new[k])
        /\ Len(df_new) <= Len(df)
        /\ RankedItems(df, min_reviews) = {} => df_new = <<>>

C10_Witness ==
    /\ pc = "extracted" /\ ValidParameters
    /\ df # <<>>
    /\ RankedItems(df, min_reviews) = {}
    /\ df_new = <<>>

====
